---- MODULE Spec2Model ----
(***************************************************************************)
(* A model of the LoRaWAN sensor simulator: the value-synthesis engine     *)
(* (sensor_simulator.py: SensorSimulator), its configuration (config.py:   *)
(* SimulatorConfig) and the periodic driver (main.py: LoRaWANSimulator).   *)
(*                                                                         *)
(* Numbers.  The program computes with Python floats.  The model uses      *)
(* fixed point: a value v is the integer v * Scale (four decimals).  Every *)
(* configured range, threshold and amplitude is exact at this resolution.  *)
(* A random draw is an input of the action that makes it, taken from a     *)
(* small set of points of the interval the code draws from (its end points *)
(* always, inner points as DrawDen allows).  math.sin and math.cos are     *)
(* tabulated at the angles the configured hours produce, rounded to four   *)
(* decimals, so sin(pi), which is 1.2e-16 in floating point, is 0 here.    *)
(***************************************************************************)
EXTENDS Integers, Sequences, FiniteSets, TLC

Scale == 10^4

(***************************************************************************)
(* Bounds of the model.                                                    *)
(***************************************************************************)
\* Readings the driver may ask for in a run from a fresh engine: a round
\* starts only while the budget covers every sensor of the registry.
MaxCalls == 4
\* The same budget for a run from an engine that has been running for long.
MaxAgedCalls == 2
\* A uniform draw on [a, b] is one of a + (b - a) * u / DrawDen, u in 0..DrawDen.
DrawDen == 1
\* A normal draw is the mean plus z standard deviations, z in {-GaussMax, 0, GaussMax}.
GaussMax == 4
\* A direct call of the status classifier takes a value within MaxProbe
\* steps, of a ten-thousandth and of a whole unit, of a threshold.
MaxProbe == 3

(***************************************************************************)
(* config.py                                                               *)
(***************************************************************************)
SENSOR_RANGES ==
  [ soil_moisture |->
      [min |-> 15 * Scale, max |-> 85 * Scale,
       critical_min |-> 25 * Scale, critical_max |-> 85 * Scale,
       unit |-> "%", variation |-> 5 * Scale],
    soil_ph |->
      [min |-> 5 * Scale, max |-> 8 * Scale,
       critical_min |-> (55 * Scale) \div 10, critical_max |-> (75 * Scale) \div 10,
       unit |-> "pH", variation |-> (3 * Scale) \div 10],
    air_temperature |->
      [min |-> 5 * Scale, max |-> 35 * Scale,
       critical_min |-> 2 * Scale, critical_max |-> 40 * Scale,
       unit |-> "C", variation |-> 3 * Scale],
    air_humidity |->
      [min |-> 30 * Scale, max |-> 90 * Scale,
       critical_min |-> 20 * Scale, critical_max |-> 95 * Scale,
       unit |-> "%", variation |-> 8 * Scale],
    light_intensity |->
      [min |-> 1000 * Scale, max |-> 80000 * Scale,
       critical_min |-> 500 * Scale, critical_max |-> 90000 * Scale,
       unit |-> "lux", variation |-> 5000 * Scale],
    rainfall |->
      [min |-> 0, max |-> 25 * Scale,
       critical_min |-> 0, critical_max |-> 50 * Scale,
       unit |-> "mm", variation |-> 2 * Scale],
    wind_speed |->
      [min |-> 0, max |-> 80 * Scale,
       critical_min |-> (36 * Scale) \div 10, critical_max |-> 36 * Scale,
       unit |-> "km/h", variation |-> 3 * Scale] ]

\* The scenario table in declaration order; a probability p is the integer p * Scale.
SCENARIOS ==
  << [scenario |-> "normal",       probability |-> (75 * Scale) \div 100],
     [scenario |-> "drought",      probability |-> (10 * Scale) \div 100],
     [scenario |-> "rainy",        probability |-> (10 * Scale) \div 100],
     [scenario |-> "extreme_temp", probability |-> (5 * Scale) \div 100] >>

TIME_EFFECTS ==
  [ hourly |->
      [ temperature |-> [min_hour |-> 6, max_hour |-> 14, variation |-> 8],
        light |-> [sunrise_hour |-> 6, sunset_hour |-> 18, max_intensity |-> 80000] ],
    seasonal |->
      << [season |-> "spring", months |-> {3, 4, 5},   temp_modifier |-> 0],
         [season |-> "summer", months |-> {6, 7, 8},   temp_modifier |-> 8],
         [season |-> "autumn", months |-> {9, 10, 11}, temp_modifier |-> 2],
         [season |-> "winter", months |-> {12, 1, 2},  temp_modifier |-> -5] >> ]

ENABLE_RANDOM_VARIATIONS == TRUE

(***************************************************************************)
(* Arithmetic the code takes from Python.                                  *)
(***************************************************************************)
Max(a, b) == IF a >= b THEN a ELSE b

Min(a, b) == IF a <= b THEN a ELSE b

\* int(x): truncation toward zero, of a fixed-point x, as a whole number.
TruncInt(x) == IF x >= 0 THEN x \div Scale ELSE -((-x) \div Scale)

\* round(x, 3) of a fixed-point x >= 0, still in fixed point; a decimal tie
\* goes to the even third decimal.
Round3(x) ==
  LET r == x % 10
      down == x - r
  IN  IF r < 5 THEN down
      ELSE IF r > 5 THEN down + 10
      ELSE IF (down \div 10) % 2 = 0 THEN down ELSE down + 10

\* math.sin at an angle of 0..180 degrees given in tenths of a degree, times Scale.
Sin10k(x) ==
  LET y == IF x > 900 THEN 1800 - x ELSE x
  IN  CASE y = 0   -> 0
        [] y = 180 -> 3090
        [] y = 225 -> 3827
        [] y = 300 -> 5000
        [] y = 360 -> 5878
        [] y = 450 -> 7071
        [] y = 540 -> 8090
        [] y = 600 -> 8660
        [] y = 675 -> 9239
        [] y = 720 -> 9511
        [] y = 900 -> 10000

\* math.cos at the same angles.
Cos10k(x) == IF x <= 900 THEN Sin10k(900 - x) ELSE -Sin10k(x - 900)

\* The angle progress * pi for progress = num / den, in tenths of a degree.
AnglePi(num, den) == (1800 * num) \div den

\* random.uniform(a, b) at the draw u of 0..DrawDen.
Uniform(a, b, u) == a + ((b - a) * u) \div DrawDen

\* random.gauss(mean, std) at the draw of z standard deviations.
Gauss(mean, std, z) == mean + z * std

\* The draws of a uniform distribution the value stages take.
UDraws == 0..DrawDen

\* The end points of the interval: the draws the jitter, trend and battery
\* stages take.
EndDraws == {0, DrawDen}

\* The draws (base, penalty) the quality and signal stages take: the pair
\* that gives the lowest result and the pair that gives the highest.
HealthDraws == { << 0, DrawDen >>, << DrawDen, 0 >> }

\* The draws of a normal distribution.
ZDraws == {-GaussMax, 0, GaussMax}

(***************************************************************************)
(* sensor_simulator.py: the stages of generate_sensor_data, each a         *)
(* function of its arguments, the engine fields it reads and its draws.    *)
(***************************************************************************)
\* The walk of _select_scenario from entry i with the running sum so far:
\* the first entry whose cumulative sum reaches the draw, else the scenario
\* the engine already had (the loop ends without an assignment).
RECURSIVE ScenarioWalk(_, _, _, _, _)
ScenarioWalk(table, rand, current, i, cumulative) ==
  IF i > Len(table) THEN current
  ELSE LET c == cumulative + table[i].probability
       IN  IF rand <= c THEN table[i].scenario
           ELSE ScenarioWalk(table, rand, current, i + 1, c)

\* _select_scenario reading the shipped table whatever table is configured.
_select_scenario_shipped(table, rand, current) == ScenarioWalk(SCENARIOS, rand, current, 1, 0)

\* current_scenario after _select_scenario with the draw rand of random.random().
_select_scenario(table, rand, current) == ScenarioWalk(table, rand, current, 1, 0)

\* The default branch of _generate_base_value: the normal distribution.
NormalDraw(ranges, z) ==
  LET mean == (ranges.min + ranges.max) \div 2
      std  == (ranges.max - ranges.min) \div 6
  IN  Gauss(mean, std, z)

\* _generate_base_value without the rainy override for rainfall.
_generate_base_value_no_rainfall(sensor_type, scenario, z, u) ==
  LET ranges == SENSOR_RANGES[sensor_type]
  IN  CASE scenario = "drought" /\ sensor_type = "soil_moisture" ->
             Uniform(ranges.min, ranges.min + 10 * Scale, u)
        [] scenario = "drought" /\ sensor_type = "air_temperature" ->
             Uniform(ranges.max - 5 * Scale, ranges.max, u)
        [] scenario = "rainy" /\ sensor_type = "soil_moisture" ->
             Uniform(ranges.max - 10 * Scale, ranges.max, u)
        [] scenario = "rainy" /\ sensor_type = "air_temperature" ->
             Uniform(ranges.min, ranges.min + 5 * Scale, u)
        [] scenario = "extreme_temp" /\ sensor_type = "air_temperature" ->
             Uniform(ranges.max - 2 * Scale, ranges.max + 5 * Scale, u)
        [] scenario = "extreme_temp" /\ sensor_type = "soil_moisture" ->
             Uniform(ranges.min, ranges.min + 15 * Scale, u)
        [] OTHER -> NormalDraw(ranges, z)

\* _generate_base_value for a type of the profile table, with the draw z of
\* random.gauss and the draw u of random.uniform (one of them is used).
_generate_base_value(sensor_type, scenario, z, u) ==
  LET ranges == SENSOR_RANGES[sensor_type]
  IN  CASE scenario = "normal" -> NormalDraw(ranges, z)
        [] scenario = "drought" ->
             IF sensor_type = "soil_moisture"
               THEN Uniform(ranges.min, ranges.min + 10 * Scale, u)
             ELSE IF sensor_type = "air_temperature"
               THEN Uniform(ranges.max - 5 * Scale, ranges.max, u)
             ELSE NormalDraw(ranges, z)
        [] scenario = "rainy" ->
             IF sensor_type = "soil_moisture"
               THEN Uniform(ranges.max - 10 * Scale, ranges.max, u)
             ELSE IF sensor_type = "air_temperature"
               THEN Uniform(ranges.min, ranges.min + 5 * Scale, u)
             ELSE IF sensor_type = "rainfall"
               THEN Uniform(5 * Scale, ranges.max, u)
             ELSE NormalDraw(ranges, z)
        [] scenario = "extreme_temp" ->
             IF sensor_type = "air_temperature"
               THEN Uniform(ranges.max - 2 * Scale, ranges.max + 5 * Scale, u)
             ELSE IF sensor_type = "soil_moisture"
               THEN Uniform(ranges.min, ranges.min + 15 * Scale, u)
             ELSE NormalDraw(ranges, z)
        [] OTHER -> Uniform(ranges.min, ranges.max, u)

\* temp_modifier of _apply_time_effects: the additive diurnal term at an hour.
TempModifier(hour) ==
  LET temp_effects == TIME_EFFECTS.hourly.temperature
      min_hour  == temp_effects.min_hour
      max_hour  == temp_effects.max_hour
      variation == temp_effects.variation
  IN  IF min_hour <= hour /\ hour <= max_hour
        THEN (Sin10k(AnglePi(hour - min_hour, max_hour - min_hour)) * variation) \div 2
      ELSE IF hour < min_hour
        THEN (-Cos10k(AnglePi(hour, min_hour)) * variation) \div 2
      ELSE (-Cos10k(AnglePi(hour - max_hour, 24 - max_hour)) * variation) \div 2

\* intensity of _apply_time_effects at an hour of the sunrise..sunset window.
\* With mid = (sunrise + sunset) / 2 the code's progress is
\* (hour - sunrise) / (mid - sunrise) up to mid and
\* 1 - (hour - mid) / (sunset - mid) after it; both are written over the
\* common denominator sunset - sunrise.
LightIntensity(hour) ==
  LET light_effects == TIME_EFFECTS.hourly.light
      sunrise == light_effects.sunrise_hour
      sunset  == light_effects.sunset_hour
      max_intensity == light_effects.max_intensity
      num == IF 2 * hour <= sunrise + sunset
               THEN 2 * (hour - sunrise)
               ELSE 2 * (sunset - hour)
  IN  Sin10k(AnglePi(num, sunset - sunrise)) * max_intensity

\* The seasonal loop of _apply_time_effects: the modifier of the first season
\* that holds the month, 0 when none does.
RECURSIVE SeasonalModifier(_, _)
SeasonalModifier(month, i) ==
  IF i > Len(TIME_EFFECTS.seasonal) THEN 0
  ELSE IF month \in TIME_EFFECTS.seasonal[i].months
    THEN TIME_EFFECTS.seasonal[i].temp_modifier * Scale
  ELSE SeasonalModifier(month, i + 1)

\* _apply_time_effects at the clock (hour, month); night is the draw of
\* random.uniform(0, 100) the code makes outside the light window.
_apply_time_effects(sensor_type, base_value, hour, month, night) ==
  LET hourly ==
        IF sensor_type = "air_temperature" THEN base_value + TempModifier(hour)
        ELSE IF sensor_type = "light_intensity" THEN
          IF TIME_EFFECTS.hourly.light.sunrise_hour <= hour
             /\ hour <= TIME_EFFECTS.hourly.light.sunset_hour
            THEN Max(base_value, LightIntensity(hour))
            ELSE Uniform(0, 100 * Scale, night)
        ELSE base_value
  IN  IF sensor_type = "air_temperature"
        THEN hourly + SeasonalModifier(month, 1)
        ELSE hourly

\* _apply_trends taking a zero difference for a continued trend (>= and <=).
_apply_trends_nonstrict(value, sensor_id, lv, td, first, strength, reroll) ==
  LET td1 == IF sensor_id \in DOMAIN td THEN td ELSE (sensor_id :> first) @@ td
  IN  IF sensor_id \in DOMAIN lv
        THEN LET difference == value - lv[sensor_id]
             IN  IF (difference >= 0 /\ td1[sensor_id] > 0)
                    \/ (difference <= 0 /\ td1[sensor_id] < 0)
                   THEN [value |-> value + td1[sensor_id] * strength,
                         trend_direction |-> td1]
                   ELSE [value |-> value,
                         trend_direction |-> [td1 EXCEPT ![sensor_id] = reroll]]
        ELSE [value |-> value, trend_direction |-> td1]

\* _apply_trends: the adjusted value and the trend_direction map it leaves.
\* first is the draw of random.choice for an id without a direction, strength
\* the draw of random.uniform(0.1, 0.3), reroll the draw of random.choice on
\* a reversal.  The correlation branch of the code changes nothing.
_apply_trends(value, sensor_id, lv, td, first, strength, reroll) ==
  LET td1 == IF sensor_id \in DOMAIN td THEN td ELSE (sensor_id :> first) @@ td
  IN  IF sensor_id \in DOMAIN lv
        THEN LET difference == value - lv[sensor_id]
             IN  IF (difference > 0 /\ td1[sensor_id] > 0)
                    \/ (difference < 0 /\ td1[sensor_id] < 0)
                   THEN [value |-> value + td1[sensor_id] * strength,
                         trend_direction |-> td1]
                   ELSE [value |-> value,
                         trend_direction |-> [td1 EXCEPT ![sensor_id] = reroll]]
        ELSE [value |-> value, trend_direction |-> td1]

\* _add_random_variation without the test of ENABLE_RANDOM_VARIATIONS.
_add_random_variation_always(sensor_type, value, enabled, u) ==
  value + Uniform(-SENSOR_RANGES[sensor_type].variation,
                  SENSOR_RANGES[sensor_type].variation, u)

\* _add_random_variation with the draw u of random.uniform(-variation, variation).
_add_random_variation(sensor_type, value, enabled, u) ==
  IF ~enabled THEN value
  ELSE LET variation == SENSOR_RANGES[sensor_type].variation
       IN  value + Uniform(-variation, variation, u)

\* _clamp_value without its upper bound.
_clamp_value_no_upper(sensor_type, value) == Max(SENSOR_RANGES[sensor_type].min, value)

\* _clamp_value returning its argument: the value is not clamped.
_clamp_value_skipped(sensor_type, value) == value

_clamp_value(sensor_type, value) ==
  LET ranges == SENSOR_RANGES[sensor_type]
  IN  Max(ranges.min, Min(ranges.max, value))

\* _calculate_sensor_status without the branch for soil_moisture: every type
\* is classified by the thresholds of its profile.
_calculate_sensor_status_generic(sensor_type, value) ==
  LET ranges == SENSOR_RANGES[sensor_type]
  IN  IF value < ranges.critical_min \/ value > ranges.critical_max THEN "critical"
      ELSE IF value < (ranges.critical_min \div 10) * 12
              \/ value > (ranges.critical_max \div 10) * 8 THEN "warning"
      ELSE "normal"

\* _calculate_sensor_status with the warning test ahead of the critical test.
_calculate_sensor_status_warning_first(sensor_type, value) ==
  LET ranges == SENSOR_RANGES[sensor_type]
  IN  IF sensor_type = "soil_moisture"
        THEN _calculate_sensor_status_generic("soil_moisture", value)
      ELSE IF value < (ranges.critical_min \div 10) * 12
              \/ value > (ranges.critical_max \div 10) * 8 THEN "warning"
      ELSE IF value < ranges.critical_min \/ value > ranges.critical_max THEN "critical"
      ELSE "normal"

\* _calculate_sensor_status with 'and' for 'or' in the warning test of the
\* generic branch.
_calculate_sensor_status_and(sensor_type, value) ==
  LET ranges == SENSOR_RANGES[sensor_type]
  IN  IF sensor_type = "soil_moisture"
        THEN IF value < 25 * Scale \/ value > 85 * Scale THEN "critical"
             ELSE IF (value >= 25 * Scale /\ value < 40 * Scale)
                     \/ (value > 70 * Scale /\ value <= 85 * Scale) THEN "warning"
             ELSE "normal"
      ELSE IF value < ranges.critical_min \/ value > ranges.critical_max THEN "critical"
      ELSE IF value < (ranges.critical_min \div 10) * 12
              /\ value > (ranges.critical_max \div 10) * 8 THEN "warning"
      ELSE "normal"

\* The products critical_min * 1.2 and critical_max * 0.8 are taken as
\* (x / 10) * 12 and (x / 10) * 8, exact for every configured threshold.
_calculate_sensor_status(sensor_type, value) ==
  LET ranges == SENSOR_RANGES[sensor_type]
  IN  IF sensor_type = "soil_moisture"
        THEN IF value < 25 * Scale \/ value > 85 * Scale THEN "critical"
             ELSE IF (value >= 25 * Scale /\ value < 40 * Scale)
                     \/ (value > 70 * Scale /\ value <= 85 * Scale) THEN "warning"
             ELSE "normal"
        ELSE IF value < ranges.critical_min \/ value > ranges.critical_max
               THEN "critical"
             ELSE IF value < (ranges.critical_min \div 10) * 12
                     \/ value > (ranges.critical_max \div 10) * 8 THEN "warning"
             ELSE "normal"

\* _calculate_quality_score with the draws of its two random.uniform calls.
_calculate_quality_score(scenario, u1, u2) ==
  LET base_score == Uniform(95 * Scale, 100 * Scale, u1)
      score == IF scenario = "extreme_temp"
                 THEN base_score - Uniform(5 * Scale, 15 * Scale, u2)
               ELSE IF scenario = "drought"
                 THEN base_score - Uniform(2 * Scale, 8 * Scale, u2)
               ELSE base_score
  IN  Max(50, Min(100, TruncInt(score)))

\* _simulate_battery_level without the floor of 10.
_simulate_battery_level_no_floor(sensor_id, lv, batt, u) ==
  IF sensor_id \notin DOMAIN lv THEN [level |-> 100, battery |-> batt]
  ELSE LET stored == IF sensor_id \in DOMAIN batt THEN batt[sensor_id] ELSE 100 * Scale
           current_battery ==
             stored - Uniform((5 * Scale) \div 100, (15 * Scale) \div 100, u)
       IN  [level |-> TruncInt(current_battery),
            battery |-> (sensor_id :> current_battery) @@ batt]

\* _simulate_battery_level adding the draw instead of subtracting it.
_simulate_battery_level_charging(sensor_id, lv, batt, u) ==
  IF sensor_id \notin DOMAIN lv THEN [level |-> 100, battery |-> batt]
  ELSE LET stored == IF sensor_id \in DOMAIN batt THEN batt[sensor_id] ELSE 100 * Scale
           current_battery ==
             Max(10 * Scale, stored + Uniform((5 * Scale) \div 100, (15 * Scale) \div 100, u))
       IN  [level |-> TruncInt(current_battery),
            battery |-> (sensor_id :> current_battery) @@ batt]

\* _simulate_battery_level keeping one level for all sensors (one _battery
\* attribute instead of one per sensor id).
_simulate_battery_level_shared(sensor_id, lv, batt, u) ==
  IF sensor_id \notin DOMAIN lv THEN [level |-> 100, battery |-> batt]
  ELSE LET stored == IF sensor_id \in DOMAIN batt THEN batt[sensor_id] ELSE 100 * Scale
           current_battery ==
             Max(10 * Scale, stored - Uniform((5 * Scale) \div 100, (15 * Scale) \div 100, u))
       IN  [level |-> TruncInt(current_battery),
            battery |-> [ id \in DOMAIN batt \cup {sensor_id} |-> current_battery ]]

\* _simulate_battery_level taking a sensor without a stored level for a
\* first reading: it reports 100 and stores nothing.
_simulate_battery_level_first_unstored(sensor_id, lv, batt, u) ==
  IF sensor_id \notin DOMAIN batt THEN [level |-> 100, battery |-> batt]
  ELSE LET current_battery ==
             Max(10 * Scale,
                 batt[sensor_id] - Uniform((5 * Scale) \div 100, (15 * Scale) \div 100, u))
       IN  [level |-> TruncInt(current_battery),
            battery |-> (sensor_id :> current_battery) @@ batt]

\* _simulate_battery_level: the level it reports and the stored levels (the
\* _battery_<id> attributes) it leaves; u is the draw of random.uniform(0.05, 0.15).
_simulate_battery_level(sensor_id, lv, batt, u) ==
  IF sensor_id \notin DOMAIN lv THEN [level |-> 100, battery |-> batt]
  ELSE LET stored == IF sensor_id \in DOMAIN batt THEN batt[sensor_id] ELSE 100 * Scale
           current_battery ==
             Max(10 * Scale, stored - Uniform((5 * Scale) \div 100, (15 * Scale) \div 100, u))
       IN  [level |-> TruncInt(current_battery),
            battery |-> (sensor_id :> current_battery) @@ batt]

\* _simulate_signal_strength with the draws of its two random.uniform calls.
_simulate_signal_strength(scenario, u1, u2) ==
  LET base_rssi == Uniform(-80 * Scale, -40 * Scale, u1)
      rssi == IF scenario = "rainy"
                THEN base_rssi - Uniform(5 * Scale, 15 * Scale, u2)
              ELSE IF scenario = "extreme_temp"
                THEN base_rssi - Uniform(2 * Scale, 8 * Scale, u2)
              ELSE base_rssi
  IN  TruncInt(Max(-120 * Scale, Min(-30 * Scale, rssi)))

(***************************************************************************)
(* State.                                                                  *)
(***************************************************************************)
VARIABLES
  current_scenario,   \* SensorSimulator.current_scenario
  last_values,        \* SensorSimulator.last_values: sensor id -> final value
  trend_direction,    \* SensorSimulator.trend_direction: sensor id -> -1 or 1
  battery,            \* the _battery_<id> attributes: sensor id -> stored level
  scenario_table,     \* SimulatorConfig.SCENARIOS as the engine reads it
  random_variations,  \* SimulatorConfig.ENABLE_RANDOM_VARIATIONS as the engine reads it
  registry,           \* the active sensors the database holds
  pc,                 \* where the driver is: see the actions
  sensors,            \* generate_and_save_data: the list the round fetched
  idx,                \* generate_and_save_data: the position of its for loop
  budget,             \* readings the driver may still ask for
  rec,                \* sensor_data: the record returned, until it is saved
  levels,             \* history: sensor id -> battery levels reported so far
  roundLog,           \* history: what the current round did for each sensor
  draw_unmatched,     \* history: the latest scenario draw exceeded every cumulative sum
  raised,             \* history: generate_sensor_data has raised an error in this run
  probe               \* a direct call of one engine function: its arguments and result

vars == << current_scenario, last_values, trend_direction, battery,
           scenario_table, random_variations, registry, pc, sensors, idx,
           budget, rec, levels, roundLog, draw_unmatched, raised, probe >>

engine == << current_scenario, last_values, trend_direction, battery >>

config == << scenario_table, random_variations, registry, probe >>

driver == << pc, sensors, idx, budget, rec, levels, roundLog >>

\* An empty dict.
EmptyMap == [k \in {} |-> 0]

\* dict[key] = value.
Put(map, key, value) == (key :> value) @@ map

\* No record: sensor_data is not bound.
NoRecord == [sensor_id |-> 0]

\* The hours and months the clock is read at (datetime.now()).
ClockHours == {3, 12, 15}

ClockMonths == {1, 7}

\* The draws of random.random() that tell the entries of a table apart: the
\* cumulative sums, the next value after each, and the ends of [0, 1).
RECURSIVE Cumulative(_, _)
Cumulative(table, i) == IF i = 0 THEN 0 ELSE Cumulative(table, i - 1) + table[i].probability

RandDraws(table) ==
  { r \in {0, Scale - 1} \cup { Cumulative(table, i) : i \in 1..Len(table) }
                         \cup { Cumulative(table, i) + 1 : i \in 1..Len(table) } :
      r < Scale }

\* _select_scenario at each draw: the scenario it leaves in current_scenario,
\* and whether the draw exceeded the total of the table.
Selections(table, current) ==
  { [scenario |-> _select_scenario(table, rand, current),
     unmatched |-> rand > Cumulative(table, Len(table))] : rand \in RandDraws(table) }

\* No direct call was made.
NoProbe == [op |-> "none"]

\* The sensor descriptors get_active_sensors returns, ordered by id.
Descriptor(id, type_name) == [id |-> id, type_name |-> type_name]

Registries ==
  { << Descriptor(101, "soil_moisture") >>,
    << Descriptor(101, "soil_ph") >>,
    << Descriptor(101, "air_temperature") >>,
    << Descriptor(101, "air_humidity") >>,
    << Descriptor(101, "light_intensity") >>,
    << Descriptor(101, "rainfall") >>,
    << Descriptor(101, "wind_speed") >>,
    << Descriptor(101, "soil_ph"), Descriptor(102, "wind_speed") >>,
    << Descriptor(101, "co2"), Descriptor(102, "rainfall") >>,
    << Descriptor(101, "soil_moisture"), Descriptor(102, "co2") >>,
    << Descriptor(101, "soil_ph"), Descriptor(102, "co2"), Descriptor(103, "rainfall") >> }

(***************************************************************************)
(* generate_sensor_data, lines 33-39: every trend-adjusted value the draws *)
(* allow for a sensor of a known type under a scenario, with the           *)
(* trend_direction map _apply_trends leaves.                               *)
(***************************************************************************)
TrendAdjustedValues(sensor, scenario) ==
  LET sensor_type == sensor.type_name
      base_values ==
        { _generate_base_value(sensor_type, scenario, z, u) : z \in ZDraws, u \in UDraws }
      time_adjusted ==
        { _apply_time_effects(sensor_type, b, h, m, n) :
            b \in base_values, h \in ClockHours, m \in ClockMonths, n \in UDraws }
  IN  { _apply_trends(t, sensor.id, last_values, trend_direction, f,
                      Uniform(Scale \div 10, (3 * Scale) \div 10, s), r) :
          t \in time_adjusted, f \in {-1, 1}, s \in EndDraws, r \in {-1, 1} }

\* generate_sensor_data, lines 42-45: the jitter and the clamp on top.
FinalValues(sensor, scenario) ==
  { [value |-> _clamp_value(sensor.type_name,
                 _add_random_variation(sensor.type_name, t.value, random_variations, j)),
     trend_direction |-> t.trend_direction] :
      t \in TrendAdjustedValues(sensor, scenario), j \in EndDraws }

(***************************************************************************)
(* main.py: generate_and_save_data, and inside it generate_sensor_data,    *)
(* one step at a time.  pc is "idle" between rounds, "loop" at the head of *)
(* the for loop, "annotate" inside generate_sensor_data once the final     *)
(* value is stored, "save" once the record is returned, "except" in the    *)
(* except clause.                                                          *)
(***************************************************************************)
\* sensors = self.db_manager.get_active_sensors(): the registry, or the empty
\* list get_active_sensors returns when the database fails.
RoundStart ==
  /\ pc = "idle"
  /\ Len(registry) <= budget
  /\ \E fetched \in {registry, << >>} : sensors' = fetched
  /\ idx' = 1
  /\ pc' = "loop"
  /\ UNCHANGED << engine, config, budget, rec, levels, roundLog, draw_unmatched, raised >>

\* generate_sensor_data, lines 26-48, for a sensor of a known type: the
\* scenario is selected, the value synthesized and stored.
SynthesizeValue ==
  /\ pc = "loop"
  /\ idx <= Len(sensors)
  /\ sensors[idx].type_name \in DOMAIN SENSOR_RANGES
  /\ \E s \in Selections(scenario_table, current_scenario) :
       \E f \in FinalValues(sensors[idx], s.scenario) :
         /\ current_scenario' = s.scenario
         /\ draw_unmatched' = s.unmatched
         /\ last_values' = Put(last_values, sensors[idx].id, f.value)
         /\ trend_direction' = f.trend_direction
  /\ pc' = "annotate"
  /\ budget' = budget - 1
  /\ UNCHANGED << battery, config, sensors, idx, rec, levels, roundLog, raised >>

\* SynthesizeRaises where the trend direction of the sensor is initialised
\* before the profile of its type is looked up.
SynthesizeRaises_after_trend ==
  /\ pc = "loop"
  /\ idx <= Len(sensors)
  /\ sensors[idx].type_name \notin DOMAIN SENSOR_RANGES
  /\ \E s \in Selections(scenario_table, current_scenario) :
       /\ current_scenario' = s.scenario
       /\ draw_unmatched' = s.unmatched
       /\ roundLog' = Append(roundLog,
                             [sensor_id |-> sensors[idx].id, scenario |-> s.scenario,
                              outcome |-> "error"])
  /\ \E first \in {-1, 1} :
       trend_direction' = IF sensors[idx].id \in DOMAIN trend_direction
                            THEN trend_direction
                            ELSE Put(trend_direction, sensors[idx].id, first)
  /\ pc' = "except"
  /\ raised' = TRUE
  /\ budget' = budget - 1
  /\ UNCHANGED << last_values, battery, config, sensors, idx, rec, levels >>

\* generate_sensor_data for a sensor whose type is not in the profile table:
\* the scenario is selected, then _generate_base_value raises KeyError, which
\* leaves the for loop for the except clause of generate_and_save_data.
SynthesizeRaises ==
  /\ pc = "loop"
  /\ idx <= Len(sensors)
  /\ sensors[idx].type_name \notin DOMAIN SENSOR_RANGES
  /\ \E s \in Selections(scenario_table, current_scenario) :
       /\ current_scenario' = s.scenario
       /\ draw_unmatched' = s.unmatched
       /\ roundLog' = Append(roundLog,
                             [sensor_id |-> sensors[idx].id, scenario |-> s.scenario,
                              outcome |-> "error"])
  /\ pc' = "except"
  /\ raised' = TRUE
  /\ budget' = budget - 1
  /\ UNCHANGED << last_values, trend_direction, battery, config, sensors, idx,
                  rec, levels >>

\* generate_sensor_data, lines 50-62: the status and the device-health fields
\* are computed and the record is returned.
BuildRecord ==
  /\ pc = "annotate"
  /\ LET sensor == sensors[idx]
         final_value == last_values[sensor.id]
     IN  \E q \in { _calculate_quality_score(current_scenario, u[1], u[2]) :
                      u \in HealthDraws },
            bu \in EndDraws,
            sg \in { _simulate_signal_strength(current_scenario, u[1], u[2]) :
                       u \in HealthDraws } :
           LET b == _simulate_battery_level(sensor.id, last_values, battery,  bu)
           IN  /\ battery' = b.battery
               /\ rec' = [ sensor_id |-> sensor.id,
                           value |-> Round3(final_value),
                           unit |-> SENSOR_RANGES[sensor.type_name].unit,
                           quality_score |-> q,
                           battery_level |-> b.level,
                           signal_strength |-> sg,
                           status |-> _calculate_sensor_status(sensor.type_name, final_value) ]
               /\ levels' = Put(levels, sensor.id,
                                Append(IF sensor.id \in DOMAIN levels
                                         THEN levels[sensor.id] ELSE << >>,
                                       b.level))
  /\ pc' = "save"
  /\ UNCHANGED << current_scenario, last_values, trend_direction, config,
                  sensors, idx, budget, roundLog, draw_unmatched, raised >>

\* SaveReading where a failed save leaves the loop for the except clause.
SaveReading_halts ==
  /\ pc = "save"
  /\ \E success \in BOOLEAN :
       /\ roundLog' = Append(roundLog,
                             [sensor_id |-> sensors[idx].id, scenario |-> current_scenario,
                              outcome |-> IF success THEN "saved" ELSE "save_failed"])
       /\ idx' = idx + 1
       /\ pc' = IF success THEN "loop" ELSE "except"
  /\ rec' = NoRecord
  /\ UNCHANGED << engine, config, sensors, budget, levels, draw_unmatched, raised >>

\* success = self.db_manager.save_sensor_data(sensor_data), logged either
\* way, and the loop goes on; the record is not read again.
SaveReading ==
  /\ pc = "save"
  /\ \E success \in BOOLEAN :
       roundLog' = Append(roundLog,
                          [sensor_id |-> sensors[idx].id, scenario |-> current_scenario,
                           outcome |-> IF success THEN "saved" ELSE "save_failed"])
  /\ idx' = idx + 1
  /\ pc' = "loop"
  /\ rec' = NoRecord
  /\ UNCHANGED << engine, config, sensors, budget, levels, draw_unmatched, raised >>

\* The loop is over: the round is logged and the handler returns; its locals
\* are gone.
RoundEnd ==
  /\ pc = "loop"
  /\ idx > Len(sensors)
  /\ pc' = "idle"
  /\ rec' = NoRecord
  /\ roundLog' = << >>
  /\ UNCHANGED << engine, config, sensors, idx, budget, levels, draw_unmatched, raised >>

\* except Exception: the error is logged and the handler returns.
HandleError ==
  /\ pc = "except"
  /\ pc' = "idle"
  /\ rec' = NoRecord
  /\ roundLog' = << >>
  /\ UNCHANGED << engine, config, sensors, idx, budget, levels, draw_unmatched, raised >>

\* SensorSimulator.__init__ and LoRaWANSimulator.__init__, with the shipped
\* configuration and one of the registries.
Init ==
  /\ current_scenario = "normal"
  /\ last_values = EmptyMap
  /\ trend_direction = EmptyMap
  /\ battery = EmptyMap
  /\ scenario_table = SCENARIOS
  /\ random_variations = ENABLE_RANDOM_VARIATIONS
  /\ registry \in Registries
  /\ pc = "idle"
  /\ sensors = << >>
  /\ idx = 1
  /\ budget = MaxCalls
  /\ rec = NoRecord
  /\ levels = EmptyMap
  /\ roundLog = << >>
  /\ draw_unmatched = FALSE
  /\ raised = FALSE
  /\ probe = NoProbe

Next ==
  \/ RoundStart
  \/ SynthesizeValue
  \/ SynthesizeRaises
  \/ BuildRecord
  \/ SaveReading
  \/ RoundEnd
  \/ HandleError

Spec == Init /\ [][Next]_vars

(***************************************************************************)
(* The same program, from the states of an engine that has been running    *)
(* for long: some of the sensors the rounds reach have been read many      *)
(* times, and their stored battery levels have come down near the floor;   *)
(* the others have just been activated and have no reading yet.            *)
(***************************************************************************)
\* Stored battery levels late in a run.
AgedLevels == { 10 * Scale, 10 * Scale + (90 * Scale) \div 100, 11 * Scale }

\* The ids a round generates for: those before the first sensor of unknown type.
ReachedIds(reg) ==
  { reg[i].id : i \in { j \in 1..Len(reg) :
                          \A k \in 1..j : reg[k].type_name \in DOMAIN SENSOR_RANGES } }

\* The position of a sensor id in a registry.
PositionOf(reg, id) == (CHOOSE i \in 1..Len(reg) : reg[i].id = id)

InitAged ==
  /\ registry \in Registries
  /\ current_scenario = "normal"
  /\ \E seen \in SUBSET ReachedIds(registry) :
       /\ last_values =
            [ id \in seen |->
                LET ranges == SENSOR_RANGES[registry[PositionOf(registry, id)].type_name]
                IN  (ranges.min + ranges.max) \div 2 ]
       /\ trend_direction \in [ seen -> {-1, 1} ]
       /\ battery \in [ seen -> AgedLevels ]
  /\ levels = [ id \in DOMAIN battery |-> << TruncInt(battery[id]) >> ]
  /\ scenario_table = SCENARIOS
  /\ random_variations = ENABLE_RANDOM_VARIATIONS
  /\ pc = "idle"
  /\ sensors = << >>
  /\ idx = 1
  /\ budget = MaxAgedCalls
  /\ rec = NoRecord
  /\ roundLog = << >>
  /\ draw_unmatched = FALSE
  /\ raised = FALSE
  /\ probe = NoProbe

SpecAged == InitAged /\ [][Next]_vars

(***************************************************************************)
(* The same program under other scenario tables than the shipped one: a    *)
(* table of the single entry normal: 1.0, and a table whose weights sum to *)
(* a hair less than 1, as rounding can leave them.                         *)
(***************************************************************************)
NormalOnlyTable == << [scenario |-> "normal", probability |-> Scale] >>

DeficientTable ==
  << [scenario |-> "normal",       probability |-> (70 * Scale) \div 100],
     [scenario |-> "drought",      probability |-> (10 * Scale) \div 100],
     [scenario |-> "rainy",        probability |-> (10 * Scale) \div 100],
     [scenario |-> "extreme_temp", probability |-> (10 * Scale) \div 100 - 2] >>

ScenarioTables == { SCENARIOS, NormalOnlyTable, DeficientTable }

TableRegistries ==
  { << Descriptor(101, "soil_moisture") >>,
    << Descriptor(101, "co2"), Descriptor(102, "rainfall") >> }

InitTables ==
  /\ current_scenario = "normal"
  /\ last_values = EmptyMap
  /\ trend_direction = EmptyMap
  /\ battery = EmptyMap
  /\ scenario_table \in ScenarioTables
  /\ random_variations = ENABLE_RANDOM_VARIATIONS
  /\ registry \in TableRegistries
  /\ pc = "idle"
  /\ sensors = << >>
  /\ idx = 1
  /\ budget = MaxCalls
  /\ rec = NoRecord
  /\ levels = EmptyMap
  /\ roundLog = << >>
  /\ draw_unmatched = FALSE
  /\ raised = FALSE
  /\ probe = NoProbe

SpecTables == InitTables /\ [][Next]_vars

(***************************************************************************)
(* One direct call of a pure function of the engine, on a fresh engine.    *)
(***************************************************************************)
InitProbe ==
  /\ current_scenario = "normal"
  /\ last_values = EmptyMap
  /\ trend_direction = EmptyMap
  /\ battery = EmptyMap
  /\ scenario_table = SCENARIOS
  /\ random_variations = ENABLE_RANDOM_VARIATIONS
  /\ registry = << >>
  /\ pc = "idle"
  /\ sensors = << >>
  /\ idx = 1
  /\ budget = 0
  /\ rec = NoRecord
  /\ levels = EmptyMap
  /\ roundLog = << >>
  /\ draw_unmatched = FALSE
  /\ raised = FALSE
  /\ probe = NoProbe

\* The values the status classifier is called with for a type: around every
\* threshold of the type, and the values of the literal checks.
ProbeValues(sensor_type) ==
  LET ranges == SENSOR_RANGES[sensor_type]
      around == { ranges.min, ranges.max, (ranges.min + ranges.max) \div 2,
                  ranges.critical_min, ranges.critical_max,
                  (ranges.critical_min \div 10) * 12, (ranges.critical_max \div 10) * 8,
                  25 * Scale, 40 * Scale, 70 * Scale, 85 * Scale }
      steps == { k : k \in -MaxProbe..MaxProbe } \cup { k * Scale : k \in -MaxProbe..MaxProbe }
  IN  { t + d : t \in around, d \in steps }
      \cup { 20 * Scale, 30 * Scale, 50 * Scale, 75 * Scale, 90 * Scale }

\* _calculate_sensor_status(sensor_type, value), called directly.
StatusProbe ==
  /\ probe = NoProbe
  /\ \E sensor_type \in DOMAIN SENSOR_RANGES :
       \E value \in ProbeValues(sensor_type) :
         probe' = [ op |-> "status", sensor_type |-> sensor_type, value |-> value,
                    status |-> _calculate_sensor_status(sensor_type, value) ]
  /\ UNCHANGED << engine, driver, scenario_table, random_variations, registry,
                  draw_unmatched, raised >>

SpecStatus == InitProbe /\ [][StatusProbe]_vars

\* The base values _apply_time_effects is called with for a type.
ProbeBases(sensor_type) ==
  LET ranges == SENSOR_RANGES[sensor_type]
  IN  { 0, ranges.min, (ranges.min + ranges.max) \div 2, ranges.max }

\* _apply_time_effects(sensor_type, base_value), called directly at two
\* hours of the same month with the same base value.
TimeProbe ==
  /\ probe = NoProbe
  /\ \E sensor_type \in {"air_temperature", "light_intensity", "soil_moisture"} :
       \E base_value \in ProbeBases(sensor_type), month \in 1..12,
          hour \in 0..23, other_hour \in 0..23, n1 \in EndDraws, n2 \in EndDraws :
         probe' = [ op |-> "time", sensor_type |-> sensor_type,
                    base_value |-> base_value, month |-> month,
                    hour |-> hour,
                    value |-> _apply_time_effects(sensor_type, base_value, hour, month, n1),
                    other_hour |-> other_hour,
                    other_value |->
                      _apply_time_effects(sensor_type, base_value, other_hour, month, n2) ]
  /\ UNCHANGED << engine, driver, scenario_table, random_variations, registry,
                  draw_unmatched, raised >>

SpecTime == InitProbe /\ [][TimeProbe]_vars

\* The trend-adjusted values the jitter stage is given for a type: those a
\* jitter draw of -variation or +variation brings to within MaxProbe
\* ten-thousandths of a threshold of the type's classification.
RecordInputs(sensor_type) ==
  LET ranges == SENSOR_RANGES[sensor_type]
      thresholds ==
        IF sensor_type = "soil_moisture"
          THEN { 25 * Scale, 40 * Scale, 70 * Scale, 85 * Scale }
          ELSE { ranges.critical_min, ranges.critical_max,
                 (ranges.critical_min \div 10) * 12, (ranges.critical_max \div 10) * 8 }
  IN  { t + c + d : t \in thresholds \cup { (ranges.min + ranges.max) \div 2 },
                    c \in { -ranges.variation, ranges.variation },
                    d \in -MaxProbe..MaxProbe }

\* generate_sensor_data, lines 42-55, called for a sensor on a fresh engine:
\* from the trend-adjusted value to the value and the status of the record.
RecordProbe ==
  /\ probe = NoProbe
  /\ \E sensor_type \in DOMAIN SENSOR_RANGES :
       \E trend_adjusted_value \in RecordInputs(sensor_type), j \in EndDraws :
         LET final_value ==
               _clamp_value(sensor_type,
                 _add_random_variation(sensor_type, trend_adjusted_value,
                                       random_variations, j))
         IN  probe' = [ op |-> "record", sensor_type |-> sensor_type,
                        final_value |-> final_value,
                        value |-> Round3(final_value),
                        status |-> _calculate_sensor_status(sensor_type, final_value) ]
  /\ UNCHANGED << engine, driver, scenario_table, random_variations, registry,
                  draw_unmatched, raised >>

SpecRecord == InitProbe /\ [][RecordProbe]_vars

(***************************************************************************)
(* Two runs of generate_sensor_data from the same engine state, for the    *)
(* same sensor at the same clock, with the same scenario, base and trend   *)
(* draws; ENABLE_RANDOM_VARIATIONS is on or off.  The engine has either no *)
(* reading of the sensor yet or one at the middle of its range.            *)
(***************************************************************************)
InitJitter ==
  /\ current_scenario = "normal"
  /\ registry \in { << Descriptor(101, t) >> : t \in DOMAIN SENSOR_RANGES }
  /\ \E seen \in SUBSET {101} :
       /\ last_values =
            [ id \in seen |->
                (SENSOR_RANGES[registry[1].type_name].min
                   + SENSOR_RANGES[registry[1].type_name].max) \div 2 ]
       /\ trend_direction \in [ seen -> {-1, 1} ]
  /\ battery = EmptyMap
  /\ scenario_table = SCENARIOS
  /\ random_variations \in BOOLEAN
  /\ pc = "idle"
  /\ sensors = << >>
  /\ idx = 1
  /\ budget = 0
  /\ rec = NoRecord
  /\ levels = EmptyMap
  /\ roundLog = << >>
  /\ draw_unmatched = FALSE
  /\ raised = FALSE
  /\ probe = NoProbe

\* The final values (lines 30-45) of the two runs: they share the scenario
\* and the trend-adjusted value and make their own jitter draws.
JitterProbe ==
  /\ probe = NoProbe
  /\ \E s \in Selections(scenario_table, current_scenario) :
       \E t \in TrendAdjustedValues(registry[1], s.scenario),
          j \in EndDraws, other_j \in EndDraws :
         probe' = [ op |-> "jitter", sensor_type |-> registry[1].type_name,
                    scenario |-> s.scenario,
                    trend_adjusted_value |-> t.value,
                    jitter |-> j,
                    value |-> _clamp_value(registry[1].type_name,
                                _add_random_variation(registry[1].type_name, t.value,
                                                      random_variations, j)),
                    other_jitter |-> other_j,
                    other_value |-> _clamp_value(registry[1].type_name,
                                      _add_random_variation(registry[1].type_name, t.value,
                                                            random_variations, other_j)) ]
  /\ UNCHANGED << engine, driver, scenario_table, random_variations, registry,
                  draw_unmatched, raised >>

SpecJitter == InitJitter /\ [][JitterProbe]_vars

\* _generate_base_value(sensor_type), called directly with current_scenario
\* set to a scenario of the table.
BaseProbe ==
  /\ probe = NoProbe
  /\ \E sensor_type \in DOMAIN SENSOR_RANGES, i \in 1..Len(scenario_table),
        z \in ZDraws, u \in UDraws :
       probe' = [ op |-> "base", sensor_type |-> sensor_type,
                  scenario |-> scenario_table[i].scenario, z |-> z, u |-> u,
                  value |-> _generate_base_value(sensor_type, scenario_table[i].scenario,
                                                 z, u) ]
  /\ UNCHANGED << engine, driver, scenario_table, random_variations, registry,
                  draw_unmatched, raised >>

SpecBase == InitProbe /\ [][BaseProbe]_vars

(***************************************************************************)
(* One direct call of _apply_trends for sensor 101, on an engine that has  *)
(* no reading of it yet or has one, with a stored direction, at the middle *)
(* of the range of its type.                                               *)
(***************************************************************************)
InitTrend ==
  /\ current_scenario = "normal"
  /\ registry \in { << Descriptor(101, t) >> : t \in {"air_temperature", "soil_moisture"} }
  /\ \E seen \in SUBSET {101} :
       /\ last_values =
            [ id \in seen |->
                (SENSOR_RANGES[registry[1].type_name].min
                   + SENSOR_RANGES[registry[1].type_name].max) \div 2 ]
       /\ trend_direction \in [ seen -> {-1, 1} ]
  /\ battery = EmptyMap
  /\ scenario_table = SCENARIOS
  /\ random_variations = ENABLE_RANDOM_VARIATIONS
  /\ pc = "idle"
  /\ sensors = << >>
  /\ idx = 1
  /\ budget = 0
  /\ rec = NoRecord
  /\ levels = EmptyMap
  /\ roundLog = << >>
  /\ draw_unmatched = FALSE
  /\ raised = FALSE
  /\ probe = NoProbe

\* The values _apply_trends is called with: the middle of the range and the
\* values a ten-thousandth and a unit to either side of it.
TrendInputs(sensor_type) ==
  LET mid == (SENSOR_RANGES[sensor_type].min + SENSOR_RANGES[sensor_type].max) \div 2
  IN  { mid - Scale, mid - 1, mid, mid + 1, mid + Scale }

\* _apply_trends(sensor_type, value, 101): the value it returns and the
\* direction it leaves in self.trend_direction.
TrendProbe ==
  /\ probe = NoProbe
  /\ \E value \in TrendInputs(registry[1].type_name),
        first \in {-1, 1}, s \in UDraws, reroll \in {-1, 1} :
       LET strength == Uniform(Scale \div 10, (3 * Scale) \div 10, s)
           out == _apply_trends(value, 101, last_values, trend_direction,
                                first, strength, reroll)
       IN  /\ trend_direction' = out.trend_direction
           /\ probe' = [ op |-> "trend", value |-> value,
                         first |-> first, strength |-> strength, reroll |-> reroll,
                         had_direction |-> 101 \in DOMAIN trend_direction,
                         direction |-> IF 101 \in DOMAIN trend_direction
                                         THEN trend_direction[101] ELSE 0,
                         result |-> out.value ]
  /\ UNCHANGED << current_scenario, last_values, battery, driver, scenario_table,
                  random_variations, registry, draw_unmatched, raised >>

SpecTrend == InitTrend /\ [][TrendProbe]_vars

(***************************************************************************)
(* The claims.                                                             *)
(***************************************************************************)
\* The type of the sensor a registry lists under an id.
TypeNameOf(id) == registry[PositionOf(registry, id)].type_name

\* C1: every final value generate_sensor_data has stored in last_values lies
\* within [min, max] of the profile of the sensor's type, and so does the
\* value of the record it returns.
C1_FinalValueWithinProfile ==
  /\ \A id \in DOMAIN last_values :
       /\ last_values[id] >= SENSOR_RANGES[TypeNameOf(id)].min
       /\ last_values[id] <= SENSOR_RANGES[TypeNameOf(id)].max
  /\ rec # NoRecord =>
       /\ rec.value >= SENSOR_RANGES[TypeNameOf(rec.sensor_id)].min
       /\ rec.value <= SENSOR_RANGES[TypeNameOf(rec.sensor_id)].max

\* C1's case: under extreme_temp an air_temperature reading, whose base value
\* is drawn from [max - 2, max + 5], has been stored at the upper bound.
C1_Witness ==
  /\ pc = "annotate"
  /\ current_scenario = "extreme_temp"
  /\ sensors[idx].type_name = "air_temperature"
  /\ last_values[sensors[idx].id] = SENSOR_RANGES["air_temperature"].max

\* C2: in every record returned, quality_score is within 50..100,
\* battery_level within 10..100 and signal_strength within -120..-30.
C2_HealthFieldsInRange ==
  rec # NoRecord =>
    /\ rec.quality_score \in 50..100
    /\ rec.battery_level \in 10..100
    /\ rec.signal_strength \in -120..-30

\* C2's case: a record reports the battery at its floor, with the quality
\* lowered by the scenario.
C2_Witness ==
  /\ rec # NoRecord
  /\ rec.battery_level = 10
  /\ battery[rec.sensor_id] = 10 * Scale
  /\ rec.quality_score < 95

\* C3: the first reading of a sensor id on an engine reports battery_level 100.
C3_FirstReadingReports100 ==
  \A id \in DOMAIN levels : levels[id][1] = 100

\* C4: for every sensor id the battery levels reported are non-increasing in
\* the order of the calls, and no stored battery level is below 10.
C4_BatteryNonIncreasing ==
  /\ \A id \in DOMAIN levels :
       \A i, j \in 1..Len(levels[id]) : i < j => levels[id][j] <= levels[id][i]
  /\ \A id \in DOMAIN battery : battery[id] >= 10 * Scale

\* C4's case: between two readings of sensor 102 a reading of sensor 101 was
\* made, and the level reported for 102 went down.
C4_Witness ==
  /\ Len(registry) = 2
  /\ 101 \in DOMAIN levels /\ 102 \in DOMAIN levels
  /\ Len(levels[101]) = 2
  /\ Len(levels[102]) = 2
  /\ levels[102][2] < levels[102][1]

\* C5: all sensors of one round are generated under the same scenario.
C5_ScenarioSharedInRound ==
  \A i, j \in 1..Len(roundLog) : roundLog[i].scenario = roundLog[j].scenario

\* C6: when the draw of a scenario selection exceeds the total weight of the
\* table, current_scenario is the last scenario of the table.
C6_FallsBackToLastScenario ==
  draw_unmatched => current_scenario = scenario_table[Len(scenario_table)].scenario

\* C7: a soil_moisture value v is critical iff v < 25 or v > 85, warning iff
\* 25 <= v < 40 or 70 < v <= 85, normal otherwise; 20 and 90 are critical,
\* 30 and 75 warning, 50 normal.
C7_SoilMoistureTiers ==
  (probe.op = "status" /\ probe.sensor_type = "soil_moisture") =>
    LET v == probe.value
    IN  /\ probe.status = "critical" <=> (v < 25 * Scale \/ v > 85 * Scale)
        /\ probe.status = "warning" <=>
             ((25 * Scale <= v /\ v < 40 * Scale) \/ (70 * Scale < v /\ v <= 85 * Scale))
        /\ probe.status = "normal" <=> (40 * Scale <= v /\ v <= 70 * Scale)
        /\ v \in {20 * Scale, 90 * Scale} => probe.status = "critical"
        /\ v \in {30 * Scale, 75 * Scale} => probe.status = "warning"
        /\ v = 50 * Scale => probe.status = "normal"

\* C7's case: 30, which the thresholds of the soil_moisture profile alone
\* (critical_min 25, warning below 30) would call normal, is classified warning.
C7_Witness ==
  /\ probe.op = "status"
  /\ probe.sensor_type = "soil_moisture"
  /\ probe.value = 30 * Scale
  /\ probe.status = "warning"

\* C8: for every type but soil_moisture a value v is critical iff
\* v < critical_min or v > critical_max, else warning iff v < critical_min * 1.2
\* or v > critical_max * 0.8, else normal.
C8_GenericTiers ==
  (probe.op = "status" /\ probe.sensor_type # "soil_moisture") =>
    LET v == probe.value
        ranges == SENSOR_RANGES[probe.sensor_type]
        critical == v < ranges.critical_min \/ v > ranges.critical_max
        warning  == \/ v < (ranges.critical_min \div 10) * 12
                    \/ v > (ranges.critical_max \div 10) * 8
    IN  /\ probe.status = "critical" <=> critical
        /\ probe.status = "warning" <=> (~critical /\ warning)
        /\ probe.status = "normal" <=> (~critical /\ ~warning)

\* C8's case: a value that passes both the critical and the warning test
\* (wind_speed above critical_max) is classified critical.
C8_Witness ==
  /\ probe.op = "status"
  /\ probe.sensor_type = "wind_speed"
  /\ probe.value > SENSOR_RANGES["wind_speed"].critical_max
  /\ probe.status = "critical"

\* C9: for air_temperature the additive diurnal term at hour 14 is the
\* largest of the day: with the same base value and month, no other hour
\* gives a larger result than hour 14.
C9_DiurnalTermPeaksAt14 ==
  (probe.op = "time" /\ probe.sensor_type = "air_temperature" /\ probe.hour = 14) =>
    probe.other_value <= probe.value

\* C10: for light_intensity the curve of the 6..18 window, seen through
\* max(base, curve) with a base of 0, is max_intensity at hour 12 and at
\* every other hour of the window at most what it is at hour 12.
C10_LightCurvePeaksAtMidpoint ==
  (probe.op = "time" /\ probe.sensor_type = "light_intensity"
     /\ probe.base_value = 0 /\ probe.hour = 12) =>
    /\ probe.value = TIME_EFFECTS.hourly.light.max_intensity * Scale
    /\ probe.other_hour \in 6..18 => probe.other_value <= probe.value

\* C11: a failed save is not retried and does not end the round: at the head
\* of the loop the round has handled, once each and in registry order, every
\* sensor before the position of the loop, whatever the outcomes of the
\* saves, and the round is abandoned only by an error raised while generating.
C11_SaveFailureDoesNotHaltRound ==
  /\ \A i \in 1..Len(roundLog) : roundLog[i].sensor_id = sensors[i].id
  /\ pc = "loop" => Len(roundLog) = idx - 1
  /\ pc = "except" =>
       /\ Len(roundLog) >= 1
       /\ roundLog[Len(roundLog)].outcome = "error"

\* C11's case: the save of the first sensor's reading failed, and the round
\* went on to generate and save the reading of the second.
C11_Witness ==
  /\ pc = "loop"
  /\ idx > Len(sensors)
  /\ Len(roundLog) = 2
  /\ roundLog[1].outcome = "save_failed"
  /\ roundLog[2].outcome = "saved"
  /\ roundLog[2].sensor_id = registry[2].id

\* C12: an error raised while generating the reading of a sensor of unknown
\* type is fatal: once it has been raised, the simulator generates no reading
\* any more, neither in the same round nor in a later one.
C12_UnknownTypeIsFatal ==
  raised => pc \notin {"annotate", "save"}

\* C13: in a run of consecutive readings of one sensor id on a fresh engine
\* the battery level reported strictly decreases from one reading to the
\* next, starting at 100 and staying at or above 10.
C13_BatteryStrictlyDecreasesFrom100 ==
  \A id \in DOMAIN levels :
    Len(levels[id]) >= 2 =>
      /\ levels[id][1] = 100
      /\ \A i \in 1..(Len(levels[id]) - 1) : levels[id][i + 1] < levels[id][i]
      /\ \A i \in 1..Len(levels[id]) : levels[id][i] >= 10

\* C14: the status of a record returned for a soil_moisture sensor is the
\* tier the literal thresholds (critical below 25 or above 85, warning in
\* [25, 40) or (70, 85], else normal) give to the value of the record, the
\* final value rounded to 3 decimals.
C14_StatusMatchesReturnedValue ==
  (probe.op = "record" /\ probe.sensor_type = "soil_moisture") =>
    LET v == probe.value
    IN  probe.status =
          IF v < 25 * Scale \/ v > 85 * Scale THEN "critical"
          ELSE IF (25 * Scale <= v /\ v < 40 * Scale) \/ (70 * Scale < v /\ v <= 85 * Scale)
            THEN "warning"
          ELSE "normal"

\* C15: with ENABLE_RANDOM_VARIATIONS off the jitter stage returns its
\* argument, so two runs that differ only in the jitter draw give the same
\* final value.
C15_NoJitterWhenDisabled ==
  (probe.op = "jitter" /\ ~random_variations) =>
    /\ probe.value = probe.other_value
    /\ probe.value = _clamp_value(probe.sensor_type, probe.trend_adjusted_value)

\* C15's case: the flag is off, the two runs made different jitter draws at
\* a value strictly inside the range, where the clamp hides nothing, and
\* their final values agree.
C15_Witness ==
  /\ probe.op = "jitter"
  /\ ~random_variations
  /\ probe.jitter # probe.other_jitter
  /\ probe.value > SENSOR_RANGES[probe.sensor_type].min
  /\ probe.value < SENSOR_RANGES[probe.sensor_type].max
  /\ probe.value = probe.other_value

\* C16: with the scenario table of the single entry normal: 1.0, every
\* scenario selection matches its draw and leaves current_scenario = normal.
C16_SingleEntryTableYieldsNormal ==
  scenario_table = NormalOnlyTable =>
    /\ current_scenario = "normal"
    /\ ~draw_unmatched
    /\ \A i \in 1..Len(roundLog) : roundLog[i].scenario = "normal"

\* C16's case: under the single-entry table a second reading has been
\* generated, so two selections were made.
C16_Witness ==
  /\ scenario_table = NormalOnlyTable
  /\ pc = "annotate"
  /\ budget <= MaxCalls - 2
  /\ 101 \in DOMAIN levels
  /\ current_scenario = "normal"

\* The interval [lo, hi] of a scenario override, as a pair; << >> when the
\* pair (scenario, type) has none.
C17_Override(scenario, sensor_type) ==
  LET min == SENSOR_RANGES[sensor_type].min
      max == SENSOR_RANGES[sensor_type].max
      pair == << scenario, sensor_type >>
  IN  CASE pair = << "drought", "soil_moisture" >>        -> << min, min + 10 * Scale >>
        [] pair = << "drought", "air_temperature" >>      -> << max - 5 * Scale, max >>
        [] pair = << "rainy", "soil_moisture" >>          -> << max - 10 * Scale, max >>
        [] pair = << "rainy", "air_temperature" >>        -> << min, min + 5 * Scale >>
        [] pair = << "rainy", "rainfall" >>               -> << 5 * Scale, max >>
        [] pair = << "extreme_temp", "air_temperature" >> -> << max - 2 * Scale, max + 5 * Scale >>
        [] pair = << "extreme_temp", "soil_moisture" >>   -> << min, min + 15 * Scale >>
        [] OTHER -> << >>

\* C17: the base value of a named (scenario, type) pair is the uniform draw
\* of the pair's interval (its lower end at the draw 0, its upper end at the
\* last draw, within the interval in between); the base value under normal
\* and of every other pair is the normal draw around (min + max) / 2 with
\* the standard deviation (max - min) / 6.
C17_BaseValueIntervals ==
  probe.op = "base" =>
    LET interval == C17_Override(probe.scenario, probe.sensor_type)
        ranges == SENSOR_RANGES[probe.sensor_type]
    IN  IF interval # << >>
          THEN /\ interval[1] <= probe.value /\ probe.value <= interval[2]
               /\ probe.u = 0 => probe.value = interval[1]
               /\ probe.u = DrawDen => probe.value = interval[2]
          ELSE probe.value = (ranges.min + ranges.max) \div 2
                               + probe.z * ((ranges.max - ranges.min) \div 6)

\* C17's case: under extreme_temp the base value of air_temperature was
\* drawn at the upper end of [max - 2, max + 5], above the nominal maximum.
C17_Witness ==
  /\ probe.op = "base"
  /\ probe.scenario = "extreme_temp"
  /\ probe.sensor_type = "air_temperature"
  /\ probe.value = SENSOR_RANGES["air_temperature"].max + 5 * Scale

\* C18: _apply_trends changes the value only when the sensor has a last
\* value and the sign of delta = value - last_value agrees with the stored
\* direction: it then adds direction * d, d in [0.1, 0.3], and keeps the
\* direction.  Otherwise the value is returned unchanged; with a last value
\* the direction is re-rolled from {-1, 1}, and on a first reading it is
\* initialised to -1 or 1.
C18_TrendStage ==
  probe.op = "trend" =>
    IF 101 \in DOMAIN last_values
      THEN LET delta == probe.value - last_values[101]
               agrees == \/ (delta > 0 /\ probe.direction = 1)
                         \/ (delta < 0 /\ probe.direction = -1)
           IN  /\ probe.had_direction
               /\ agrees =>
                    /\ probe.result = probe.value + probe.direction * probe.strength
                    /\ probe.strength >= Scale \div 10
                    /\ probe.strength <= (3 * Scale) \div 10
                    /\ trend_direction[101] = probe.direction
               /\ ~agrees =>
                    /\ probe.result = probe.value
                    /\ trend_direction[101] = probe.reroll
                    /\ probe.reroll \in {-1, 1}
      ELSE /\ probe.result = probe.value
           /\ ~probe.had_direction
           /\ trend_direction[101] = probe.first
           /\ probe.first \in {-1, 1}

\* C18's case: the value equals the last value (zero delta) while the stored
\* direction is up; the value passed through and the direction was
\* re-rolled to down.
C18_Witness ==
  /\ probe.op = "trend"
  /\ 101 \in DOMAIN last_values
  /\ probe.value = last_values[101]
  /\ probe.direction = 1
  /\ probe.result = probe.value
  /\ trend_direction[101] = -1

\* What a dict holds for a key: the value in a one-element sequence, or the
\* empty sequence.
C19_Entry(map, id) == IF id \in DOMAIN map THEN << map[id] >> ELSE << >>

\* C19: a step changes last_values, trend_direction or the stored battery
\* level of a sensor id only inside a generate_sensor_data call for that id:
\* a call for sensor A leaves the three entries of every other sensor B as
\* they were.
C19_OtherSensorsUntouched ==
  [][ \A B \in { registry[i].id : i \in 1..Len(registry) } :
        \/ /\ pc \in {"loop", "annotate"}
           /\ idx <= Len(sensors)
           /\ sensors[idx].id = B
        \/ /\ C19_Entry(last_values', B) = C19_Entry(last_values, B)
           /\ C19_Entry(trend_direction', B) = C19_Entry(trend_direction, B)
           /\ C19_Entry(battery', B) = C19_Entry(battery, B) ]_vars

\* C19's case: a second call for sensor 101 has run while sensor 102 had a
\* last value, a direction and a stored battery level.
C19_Witness ==
  /\ pc = "save"
  /\ sensors[idx].id = 101
  /\ Len(levels[101]) = 2
  /\ 102 \in DOMAIN last_values
  /\ 102 \in DOMAIN trend_direction
  /\ 102 \in DOMAIN battery

\* C20: no record returned for a soil_ph sensor has the status normal: a
\* value within [critical_min, critical_max] = [5.5, 7.5] is below
\* critical_min * 1.2 = 6.6 or above critical_max * 0.8 = 6.0, so it is
\* warning, and every other value is critical.
C20_SoilPhNeverNormal ==
  (probe.op = "record" /\ probe.sensor_type = "soil_ph") =>
    /\ probe.status \in {"critical", "warning"}
    /\ probe.status = "warning" <=>
         ((55 * Scale) \div 10 <= probe.final_value
            /\ probe.final_value <= (75 * Scale) \div 10)

\* C20's case: a soil_ph record at 6.5, the middle of the range [5, 8] and
\* of the critical band, is classified warning.
C20_Witness ==
  /\ probe.op = "record"
  /\ probe.sensor_type = "soil_ph"
  /\ probe.final_value = (65 * Scale) \div 10
  /\ probe.status = "warning"

\* C21: no record returned for an air_temperature, air_humidity,
\* light_intensity or rainfall sensor has the status critical, under any
\* scenario and at any clock: the value is clamped into [min, max], which
\* lies within [critical_min, critical_max], before it is classified.
C21_ClampedTypesNeverCritical ==
  \A t \in {"air_temperature", "air_humidity", "light_intensity", "rainfall"} :
    /\ SENSOR_RANGES[t].critical_min <= SENSOR_RANGES[t].min
    /\ SENSOR_RANGES[t].max <= SENSOR_RANGES[t].critical_max
    /\ (rec # NoRecord /\ TypeNameOf(rec.sensor_id) = t) => rec.status # "critical"

\* C21's case: under extreme_temp, whose base value reaches max + 5 = 40 =
\* critical_max before the other stages add to it, an air_temperature record
\* was returned at the clamp bound 35 with the status warning.
C21_Witness ==
  /\ rec # NoRecord
  /\ TypeNameOf(rec.sensor_id) = "air_temperature"
  /\ current_scenario = "extreme_temp"
  /\ rec.value = SENSOR_RANGES["air_temperature"].max
  /\ rec.status = "warning"

\* C22: a generate_sensor_data call for a sensor whose type is not in the
\* profile table raises before it touches per-sensor state: last_values,
\* trend_direction and the stored battery levels are after the call what
\* they were before it, with no entry for the sensor's id added.
C22_UnknownTypeLeavesStateUntouched ==
  [][ (pc = "loop" /\ idx <= Len(sensors)
         /\ sensors[idx].type_name \notin DOMAIN SENSOR_RANGES) =>
        /\ pc' = "except"
        /\ last_values' = last_values
        /\ trend_direction' = trend_direction
        /\ battery' = battery ]_vars

\* C22's case: the call for sensor 102 of unknown type has raised, on an
\* engine that holds the state of sensor 101 and nothing for 102, under a
\* scenario the selection of that call has changed.
C22_Witness ==
  /\ pc = "except"
  /\ sensors[idx].id = 102
  /\ current_scenario # "normal"
  /\ roundLog[1].scenario = "normal"
  /\ DOMAIN last_values = {101}
  /\ DOMAIN trend_direction = {101}
  /\ DOMAIN battery = {101}

\* The state between two generate_sensor_data calls: the same sensor ids
\* have a last value, a direction and a stored battery level, every
\* direction is -1 or 1, and the scenario is one of the table.
C23_BetweenCalls ==
  /\ pc # "annotate" =>
       /\ DOMAIN last_values = DOMAIN trend_direction
       /\ DOMAIN last_values = DOMAIN battery
  /\ \A id \in DOMAIN trend_direction : trend_direction[id] \in {-1, 1}
  /\ current_scenario \in { scenario_table[i].scenario : i \in 1..Len(scenario_table) }

\* C23: between generate_sensor_data calls the ids with a last_values entry,
\* with a trend_direction entry and with a stored battery level are the same
\* set, every trend_direction entry is -1 or 1, current_scenario is a
\* configured scenario name; and no step removes an entry.
C23_PerSensorStateConsistent ==
  /\ []C23_BetweenCalls
  /\ [][ /\ DOMAIN last_values \subseteq DOMAIN last_values'
         /\ DOMAIN trend_direction \subseteq DOMAIN trend_direction'
         /\ DOMAIN battery \subseteq DOMAIN battery' ]_vars

\* C23's case: both sensors of a registry have been read, the second one
\* once and the first one twice, and the three maps hold both ids.
C23_Witness ==
  /\ pc = "save"
  /\ Len(levels[101]) = 2
  /\ DOMAIN last_values = {101, 102}
  /\ DOMAIN trend_direction = {101, 102}
  /\ DOMAIN battery = {101, 102}
  /\ current_scenario # "normal"

====
